---- MODULE Spec2Model ----
(***************************************************************************)
(* Model of the Data-Reader pipeline:                                      *)
(*   src/Data_Pipeline/dataReader.py  CSVReader, JSONReader, TextReader,   *)
(*                                    UnifiedReader, LLMDataPreparer       *)
(*   src/DatasetLoader.py             LargeDataset                         *)
(*                                                                         *)
(* Strings are sequences of symbols (a symbol is a character or a run of   *)
(* letters), so that Path.suffix, str.strip and str() are computed and not *)
(* assumed.  Python values are tagged records [ty, s, ids]; a dict is a    *)
(* function from its keys to values.                                       *)
(***************************************************************************)
EXTENDS Integers, Sequences, FiniteSets, TLC

\* ------------------------------------------------------------------ bounds
\* most entries (files and directories) rglob finds under the root
MaxFiles == 2
\* most raw records (lines, JSON elements, CSV rows) in the whole tree
MaxRecords == 2
\* largest max_length the preparer is built with
MaxMaxLength == 3
\* how far past either end of the corpus __getitem__ is probed
IdxMargin == 1

\* ------------------------------------------------------------------ values
\* a str, an int (s holds its digits), None, and a list of ints
StrVal(s) == [ty |-> "str", s |-> s, ids |-> <<>>]
IntVal(s) == [ty |-> "int", s |-> s, ids |-> <<>>]
NoneVal == [ty |-> "none", s |-> <<>>, ids |-> <<>>]
ListVal(l) == [ty |-> "list", s |-> <<>>, ids |-> l]

\* isinstance(v, str)
IsStr(v) == v.ty = "str"

\* str(v): the textual representation of a value, as a string
PyStr(v) ==
  CASE v.ty = "str" -> v.s
    [] v.ty = "int" -> v.s
    [] v.ty = "none" -> <<"None">>
    [] OTHER -> <<"[">> \o [i \in 1..Len(v.ids) |-> "int"] \o <<"]">>

EmptyDict == [k \in {} |-> NoneVal]

\* d[key] = val
DictSet(d, key, val) ==
  [k \in DOMAIN d \cup {key} |-> IF k = key THEN val ELSE d[k]]

\* d.get(key, default)
DictGet(d, key, default) == IF key \in DOMAIN d THEN d[key] ELSE default

\* ----------------------------------------------------------------- strings
Whitespace == {" ", "\n", "\t"}

RECURSIVE LStrip(_)
LStrip(s) ==
  IF s # <<>> /\ Head(s) \in Whitespace THEN LStrip(Tail(s)) ELSE s

RECURSIVE RStrip(_)
RStrip(s) ==
  IF s # <<>> /\ s[Len(s)] \in Whitespace
  THEN RStrip(SubSeq(s, 1, Len(s) - 1))
  ELSE s

\* str.strip()
Strip(s) == RStrip(LStrip(s))

\* s.rfind(c), 1-based; 0 when c does not occur
RECURSIVE RFind(_, _)
RFind(s, c) ==
  IF s = <<>> THEN 0
  ELSE IF s[Len(s)] = c THEN Len(s)
  ELSE RFind(SubSeq(s, 1, Len(s) - 1), c)

\* Path(p).name: the final path component
PathName(p) == SubSeq(p, RFind(p, "/") + 1, Len(p))

\* Path(p).suffix: the final component's last dot and what follows it, when
\* the dot is neither the first nor the last character of the component
Suffix(p) ==
  LET name == PathName(p)
      i == RFind(name, ".")
  IN IF 1 < i /\ i < Len(name) THEN SubSeq(name, i, Len(name)) ELSE <<>>

\* ------------------------------------------------------------ raw records
\* what a reader returns per item: a str, a dict, or anything else
RawStr(s) == [k |-> "str", s |-> s, d |-> EmptyDict]
RawDict(d) == [k |-> "dict", s |-> <<>>, d |-> d]
RawOther == [k |-> "other", s |-> <<>>, d |-> EmptyDict]

\* what json.load makes of a file: a top-level list of values, one top-level
\* value that is no list, or a decode error
JsonList(vals) == [top |-> "list", vals |-> vals]
JsonValue(v) == [top |-> "value", vals |-> <<v>>]
JsonMalformed == [top |-> "malformed", vals |-> <<>>]

\* ------------------------------------------------------------- file system
TxtExt == <<".", "txt">>
JsonExt == <<".", "json">>
CsvExt == <<".", "csv">>

\* sequences over S of length at most n
SeqUpTo(S, n) == UNION {[1..m -> S] : m \in 0..n}

\* a line of one word, and a blank line
TextLines == {<<" ", "hello", "\n">>, <<"\n">>}

\* a JSON string, a JSON object whose text is a number and that has fields
\* named input_ids and file, and a JSON number
JsonElems ==
  { RawStr(<<" ", "foo">>),
    RawDict([k \in {"text", "input_ids", "file"} |->
               CASE k = "text" -> IntVal(<<"5">>)
                 [] k = "input_ids" -> StrVal(<<"x">>)
                 [] OTHER -> StrVal(<<"old">>)]),
    RawOther }

\* a blank row, and a row of one cell
CsvRows == {<<>>, <<<<"x">>>>}

\* an entry rglob('*') yields: a path, whether it is a directory, its content
File(path, body) == [path |-> path, isdir |-> FALSE, body |-> body]
Dir(path) == [path |-> path, isdir |-> TRUE, body |-> [lines |-> <<>>]]

TextFiles ==
  {File(<<"a">> \o TxtExt, [lines |-> ls]) : ls \in SeqUpTo(TextLines, MaxRecords)}

JsonFiles ==
  {File(<<"b">> \o JsonExt, [data |-> v]) :
     v \in {JsonList(es) : es \in SeqUpTo(JsonElems, MaxRecords)}
           \cup {JsonValue(RawDict([k \in {"title"} |-> StrVal(<<"t">>)])), JsonMalformed}}

CsvFiles ==
  {File(<<"c">> \o CsvExt, [header |-> <<"text", "title">>, rows |-> rs]) :
     rs \in SeqUpTo(CsvRows, MaxRecords)}
  \cup {File(<<"c">> \o CsvExt, [header |-> <<"title">>, rows |-> <<<<"x">>, <<>>>>])}

\* entries whose suffix is not registered, and directories
OtherEntries ==
  { File(<<"e", ".", "TXT">>, [lines |-> <<<<"x">>>>]),
    File(<<"d">> \o TxtExt \o <<"/", "n", ".", "md">>, [lines |-> <<<<"x">>>>]),
    Dir(<<"sub">>),
    Dir(<<"d">> \o TxtExt) }

Entries == TextFiles \cup JsonFiles \cup CsvFiles \cup OtherEntries

\* the directory part of a path (empty for an entry directly under the root)
Parent(p) == SubSeq(p, 1, RFind(p, "/") - 1)

\* the raw records a file holds for its reader
EntrySize(entry) ==
  CASE entry.isdir -> 0
    [] "data" \in DOMAIN entry.body -> Len(entry.body.data.vals)
    [] "rows" \in DOMAIN entry.body -> Len(entry.body.rows)
    [] Suffix(entry.path) = TxtExt -> Len(entry.body.lines)
    [] OTHER -> 0

RECURSIVE TreeSize(_)
TreeSize(f) == IF f = <<>> THEN 0 ELSE EntrySize(Head(f)) + TreeSize(Tail(f))

\* the listings of at most n entries with distinct paths that hold at most
\* MaxRecords raw records
RECURSIVE Listings(_)
Listings(n) ==
  IF n = 0 THEN {<<>>}
  ELSE LET shorter == Listings(n - 1)
       IN shorter \cup
          { Append(p[1], p[2]) :
              p \in { q \in {f \in shorter : Len(f) = n - 1} \X Entries :
                        /\ \A i \in 1..Len(q[1]) : q[1][i].path # q[2].path
                        /\ TreeSize(q[1]) + EntrySize(q[2]) <= MaxRecords } }

\* the trees rglob can enumerate: an entry inside a directory comes with that
\* directory
FileSystems ==
  { f \in Listings(MaxFiles) :
      \A i \in 1..Len(f) :
        Parent(f[i].path) # <<>> =>
          \E j \in 1..Len(f) : f[j].isdir /\ f[j].path = Parent(f[i].path) }

\* a path that names nothing in any tree
MissingPath == <<"m">> \o TxtExt

\* ----------------------------------------------------------------- readers
\* open(path): the entry the path names, a directory, or nothing
Open(fsys, path) ==
  LET hits == {i \in 1..Len(fsys) : fsys[i].path = path}
  IN IF hits = {} THEN [status |-> "FileNotFoundError", body |-> [lines |-> <<>>]]
     ELSE LET e == fsys[CHOOSE i \in hits : TRUE]
          IN IF e.isdir
             THEN [status |-> "IsADirectoryError", body |-> [lines |-> <<>>]]
             ELSE [status |-> "ok", body |-> e.body]

\* csv.DictReader: one dict per non-blank row, keyed by the header row; a
\* short row's missing cells are None
DictRow(header, row) ==
  [k \in {header[i] : i \in 1..Len(header)} |->
     LET i == CHOOSE j \in 1..Len(header) : header[j] = k
     IN IF i <= Len(row) THEN StrVal(row[i]) ELSE NoneVal]

RECURSIVE DictReader(_, _)
DictReader(header, rows) ==
  IF rows = <<>> THEN <<>>
  ELSE IF Head(rows) = <<>> THEN DictReader(header, Tail(rows))
  ELSE <<RawDict(DictRow(header, Head(rows)))>> \o DictReader(header, Tail(rows))

CSVReader(fsys, path) ==
  LET f == Open(fsys, path)
  IN IF f.status # "ok" THEN [status |-> f.status, raw |-> <<>>]
     ELSE [status |-> "ok", raw |-> DictReader(f.body.header, f.body.rows)]

JSONReader(fsys, path) ==
  LET f == Open(fsys, path)
  IN IF f.status # "ok" THEN [status |-> f.status, raw |-> <<>>]
     ELSE LET data == f.body.data
          IN IF data.top = "malformed"
             THEN [status |-> "JSONDecodeError", raw |-> <<>>]
             ELSE [status |-> "ok",
                   raw |-> IF data.top = "list" THEN data.vals ELSE <<data.vals[1]>>]

TextReader(fsys, path) ==
  LET f == Open(fsys, path)
  IN IF f.status # "ok" THEN [status |-> f.status, raw |-> <<>>]
     ELSE [status |-> "ok",
           raw |-> [i \in 1..Len(f.body.lines) |-> RawStr(f.body.lines[i])]]

\* self.readers: the dispatch table
readers == (CsvExt :> "CSVReader") @@ (JsonExt :> "JSONReader") @@ (TxtExt :> "TextReader")

\* self.readers[ext].read(file_path)
Read(reader, fsys, path) ==
  CASE reader = "CSVReader" -> CSVReader(fsys, path)
    [] reader = "JSONReader" -> JSONReader(fsys, path)
    [] OTHER -> TextReader(fsys, path)

\* ------------------------------------------------------------ UnifiedReader
\* NormalizeItem without the item['file'] = file_path of the dict branch
NormalizeItem_NoFile(item, path) ==
  IF item.k = "str"
  THEN [k \in {"text", "file"} |->
          IF k = "text" THEN StrVal(Strip(item.s)) ELSE StrVal(path)]
  ELSE item.d

\* NormalizeItem that also turns a dict's text into a str
NormalizeItem_Stringify(item, path) ==
  IF item.k = "str"
  THEN [k \in {"text", "file"} |->
          IF k = "text" THEN StrVal(Strip(item.s)) ELSE StrVal(path)]
  ELSE LET d == DictSet(item.d, "file", StrVal(path))
       IN [k \in DOMAIN d |-> IF k = "text" THEN StrVal(PyStr(d[k])) ELSE d[k]]

\* one pass of the normalising loop over a str or dict item
NormalizeItem(item, path) ==
  IF item.k = "str"
  THEN [k \in {"text", "file"} |->
          IF k = "text" THEN StrVal(Strip(item.s)) ELSE StrVal(path)]
  ELSE DictSet(item.d, "file", StrVal(path))

ReadResult(status, recs, io) == [status |-> status, recs |-> recs, io |-> io]

\* read_file that opens the path before it looks the suffix up
read_file_ReadFirst(fsys, path) ==
  LET ext == Suffix(path)
      f == Open(fsys, path)
  IN IF ext \notin DOMAIN readers THEN ReadResult("ValueError", <<>>, <<path>>)
     ELSE LET r == Read(readers[ext], fsys, path)
          IN IF r.status # "ok" THEN ReadResult(r.status, <<>>, <<path>>)
             ELSE IF \E i \in 1..Len(r.raw) : r.raw[i].k \notin {"str", "dict"}
             THEN ReadResult("ValueError", <<>>, <<path>>)
             ELSE ReadResult("ok",
                             [i \in 1..Len(r.raw) |-> NormalizeItem(r.raw[i], path)],
                             <<path>>)

\* read_file: io lists the paths open() was called on
read_file(fsys, path) ==
  LET ext == Suffix(path)
  IN IF ext \notin DOMAIN readers THEN ReadResult("ValueError", <<>>, <<>>)
     ELSE LET r == Read(readers[ext], fsys, path)
          IN IF r.status # "ok" THEN ReadResult(r.status, <<>>, <<path>>)
             ELSE IF \E i \in 1..Len(r.raw) : r.raw[i].k \notin {"str", "dict"}
             THEN ReadResult("ValueError", <<>>, <<path>>)
             ELSE ReadResult("ok",
                             [i \in 1..Len(r.raw) |-> NormalizeItem(r.raw[i], path)],
                             <<path>>)

\* the test of the rglob loop: which entries are handed to read_file
Selected(entry) == Suffix(entry.path) \in DOMAIN readers

\* read_directory from entry i on, with the records and the I/O so far; the
\* first read_file that raises ends the walk with its error
RECURSIVE Walk(_, _, _, _)
Walk(fsys, i, all_data, io) ==
  IF i > Len(fsys) THEN ReadResult("ok", all_data, io)
  ELSE IF ~Selected(fsys[i]) THEN Walk(fsys, i + 1, all_data, io)
  ELSE LET r == read_file(fsys, fsys[i].path)
       IN IF r.status # "ok" THEN ReadResult(r.status, <<>>, io \o r.io)
          ELSE Walk(fsys, i + 1, all_data \o r.recs, io \o r.io)

read_directory(fsys) == Walk(fsys, 1, <<>>, <<>>)

\* ---------------------------------------------------------------- tokenizer
\* the id of one word
Vocab(sym) ==
  CASE sym = "hello" -> 3
    [] sym = "foo" -> 4
    [] sym = "5" -> 5
    [] sym = "x" -> 6
    [] OTHER -> 1

\* the words of a text: its symbols that are not whitespace
RECURSIVE Words(_)
Words(text) ==
  IF text = <<>> THEN <<>>
  ELSE IF Head(text) \in Whitespace THEN Words(Tail(text))
  ELSE <<Vocab(Head(text))>> \o Words(Tail(text))

\* tokenizer.encode_plus: ids 101 and 102 frame the text when special tokens
\* are added, truncation cuts the text so that the whole fits max_length, and
\* padding "max_length" fills with id 0 and mask 0 up to max_length
encode_plus(text, add_special_tokens, max_length, padding, truncation) ==
  LET toks == Words(text)
      sp == IF add_special_tokens THEN 2 ELSE 0
      room == IF max_length > sp THEN max_length - sp ELSE 0
      body == IF truncation /\ Len(toks) > room THEN SubSeq(toks, 1, room) ELSE toks
      ids == IF add_special_tokens THEN <<101>> \o body \o <<102>> ELSE body
      pad == IF padding = "max_length" /\ Len(ids) < max_length
             THEN max_length - Len(ids) ELSE 0
  IN [input_ids |-> ids \o [i \in 1..pad |-> 0],
      attention_mask |-> [i \in 1..Len(ids) |-> 1] \o [i \in 1..pad |-> 0]]

\* ---------------------------------------------------------- LLMDataPreparer
\* the text handed to the tokenizer: item.get('text', ''), through str()
\* when it is no str
TextOf(item) ==
  LET text == DictGet(item, "text", StrVal(<<>>))
  IN IF ~IsStr(text) THEN PyStr(text) ELSE text.s

\* the encode_plus call with truncation left off
Encode_NoTruncation(text, max_len) ==
  encode_plus(text, TRUE, max_len, "max_length", FALSE)

\* the encode_plus call of prepare_data
Encode(text, max_len) == encode_plus(text, TRUE, max_len, "max_length", TRUE)

\* prepared_item.update(item): the item's fields overwrite
MergeMissing_Overwrite(prepared_item, item) ==
  [k \in DOMAIN prepared_item \cup DOMAIN item |->
     IF k \in DOMAIN item THEN item[k] ELSE prepared_item[k]]

\* prepared_item.update({k: v for k, v in item.items() if k not in prepared_item})
MergeMissing(prepared_item, item) ==
  [k \in DOMAIN prepared_item \cup DOMAIN item |->
     IF k \in DOMAIN prepared_item THEN prepared_item[k] ELSE item[k]]

\* a pass that forwards every field but text
PrepareItem_DropText(item, max_len) ==
  LET encoded == Encode(TextOf(item), max_len)
      prepared_item ==
        [k \in {"input_ids", "attention_mask", "file"} |->
           CASE k = "input_ids" -> ListVal(encoded.input_ids)
             [] k = "attention_mask" -> ListVal(encoded.attention_mask)
             [] OTHER -> DictGet(item, "file", StrVal(<<>>))]
      merged == MergeMissing(prepared_item, item)
  IN [k \in DOMAIN merged \ {"text"} |-> merged[k]]

\* one pass of prepare_data's loop
PrepareItem(item, max_len) ==
  LET encoded == Encode(TextOf(item), max_len)
      prepared_item ==
        [k \in {"input_ids", "attention_mask", "file"} |->
           CASE k = "input_ids" -> ListVal(encoded.input_ids)
             [] k = "attention_mask" -> ListVal(encoded.attention_mask)
             [] OTHER -> DictGet(item, "file", StrVal(<<>>))]
  IN MergeMissing(prepared_item, item)

prepare_data(items, max_len) ==
  [i \in 1..Len(items) |-> PrepareItem(items[i], max_len)]

\* -------------------------------------------------------------- LargeDataset
\* indexing that takes only 0 <= idx < len(list)
ListIndex_NoNegative(list, idx) ==
  IF idx >= Len(list) \/ idx < 0 THEN [status |-> "IndexError", pos |-> 0]
  ELSE [status |-> "ok", pos |-> idx + 1]

\* self.data[idx] on a Python list: a negative idx counts from the end
ListIndex(list, idx) ==
  LET n == Len(list)
  IN IF idx >= n \/ idx < -n THEN [status |-> "IndexError", pos |-> 0]
     ELSE [status |-> "ok", pos |-> IF idx < 0 THEN n + idx + 1 ELSE idx + 1]

\* __getitem__
getitem(list, idx, max_len) ==
  LET at == ListIndex(list, idx)
  IN IF at.status # "ok" THEN [status |-> at.status, recs |-> <<>>]
     ELSE [status |-> "ok", recs |-> <<prepare_data(<<list[at.pos]>>, max_len)[1]>>]

\* -------------------------------------------------------------------- state
VARIABLES
  fs,          \* the tree under data_dir, in rglob's order
  max_length,  \* LLMDataPreparer.max_length
  built,       \* LargeDataset.__init__: "no", "yes", or "failed" when it raised
  data,        \* LargeDataset.data
  ret          \* the last call: its operation, arguments and outcome, and
               \* whether it repeats the call before it

vars == <<fs, max_length, built, data, ret>>

Call(op, path, idx, arg, status, recs, io) ==
  [op |-> op, path |-> path, idx |-> idx, arg |-> arg,
   status |-> status, recs |-> recs, io |-> io, repeat |-> FALSE]

\* records handed to prepare_data by a caller other than the reader
PrepInputs ==
  { <<EmptyDict>>,
    <<[k \in {"text", "attention_mask"} |->
         IF k = "text" THEN StrVal(<<"hello", " ", "foo", " ", "x">>)
         ELSE StrVal(<<"x">>)]>> }

Init ==
  /\ fs \in FileSystems
  /\ max_length \in 2..MaxMaxLength
  /\ built = "no"
  /\ data = <<>>
  /\ ret = Call("none", <<>>, 0, <<>>, "ok", <<>>, <<>>)

\* UnifiedReader().read_file(p); the reader and the preparer are used on their
\* own, as main() of dataReader.py does, until a dataset is built
ReadFile(p) ==
  /\ built = "no"
  /\ LET r == read_file(fs, p)
     IN ret' = Call("read_file", p, 0, <<>>, r.status, r.recs, r.io)
  /\ UNCHANGED <<fs, max_length, built, data>>

\* UnifiedReader().read_directory(data_dir)
ReadDirectory ==
  /\ built = "no"
  /\ LET r == read_directory(fs)
     IN ret' = Call("read_directory", <<>>, 0, <<>>, r.status, r.recs, r.io)
  /\ UNCHANGED <<fs, max_length, built, data>>

\* LLMDataPreparer(model_name, max_length).prepare_data(items)
PrepareData(items) ==
  /\ built = "no"
  /\ ret' = Call("prepare_data", <<>>, 0, items, "ok",
                 prepare_data(items, max_length), <<>>)
  /\ UNCHANGED <<fs, max_length, built, data>>

\* LargeDataset(data_dir, model_name, max_length)
Construct ==
  /\ built = "no"
  /\ LET r == read_directory(fs)
     IN /\ built' = IF r.status = "ok" THEN "yes" ELSE "failed"
        /\ data' = r.recs
        /\ ret' = Call("init", <<>>, 0, <<>>, r.status, <<>>, r.io)
  /\ UNCHANGED <<fs, max_length>>

\* len(dataset)
Length ==
  /\ built = "yes"
  /\ ret' = Call("len", <<>>, Len(data), <<>>, "ok", <<>>, <<>>)
  /\ UNCHANGED <<fs, max_length, built, data>>

\* dataset[idx] that takes the text out of the stored record (item.pop('text'))
GetItem_Consume(idx) ==
  /\ built = "yes"
  /\ LET r == getitem(data, idx, max_length)
         at == ListIndex(data, idx)
     IN /\ ret' = [Call("getitem", <<>>, idx, <<>>, r.status, r.recs, <<>>)
                     EXCEPT !.repeat = ret.op = "getitem" /\ ret.idx = idx]
        /\ data' =
             IF r.status # "ok" THEN data
             ELSE [data EXCEPT ![at.pos] =
                     [k \in DOMAIN data[at.pos] \ {"text"} |-> data[at.pos][k]]]
  /\ UNCHANGED <<fs, max_length, built>>

\* dataset[idx]
GetItem(idx) ==
  /\ built = "yes"
  /\ LET r == getitem(data, idx, max_length)
     IN ret' = [Call("getitem", <<>>, idx, <<>>, r.status, r.recs, <<>>)
                  EXCEPT !.repeat = ret.op = "getitem" /\ ret.idx = idx]
  /\ UNCHANGED <<fs, max_length, built, data>>

Next ==
  \/ \E i \in 1..Len(fs) : ReadFile(fs[i].path)
  \/ ReadFile(MissingPath)
  \/ ReadDirectory
  \/ \E items \in PrepInputs : PrepareData(items)
  \/ ret.op \in {"read_file", "read_directory"} /\ ret.status = "ok" /\ PrepareData(ret.recs)
  \/ Construct
  \/ Length
  \/ \E idx \in (0 - Len(data) - IdxMargin)..(Len(data) + IdxMargin - 1) : GetItem(idx)

Spec == Init /\ [][Next]_vars

\* --------------------------------------------------------------- properties
TokenizerFields == {"input_ids", "attention_mask"}

\* what the registered reader returns for a path that read_file accepted
RawItems(path) == Read(readers[Suffix(path)], fs, path).raw

ReadFileOk == ret.op = "read_file" /\ ret.status = "ok"
GetItemOk == ret.op = "getitem" /\ ret.status = "ok"

\* the record of the corpus that dataset[ret.idx] was made from
Picked == data[IF ret.idx < 0 THEN Len(data) + ret.idx + 1 ELSE ret.idx + 1]

\* C1 as stated: every record read_file returns has a text field and a file
\* field equal to the input path.
C1_TextAndFile ==
  ReadFileOk =>
    \A i \in 1..Len(ret.recs) :
      /\ {"text", "file"} \subseteq DOMAIN ret.recs[i]
      /\ ret.recs[i]["file"] = StrVal(ret.path)

\* C1 amended: read_file returns one mapping per raw record, each with a file
\* field equal to the input path; the mapping has a text field exactly when
\* the raw record is a string or is a mapping that itself has a text key.
C1_FileAndSourceText ==
  ReadFileOk =>
    /\ Len(ret.recs) = Len(RawItems(ret.path))
    /\ \A i \in 1..Len(ret.recs) :
         /\ "file" \in DOMAIN ret.recs[i]
         /\ ret.recs[i]["file"] = StrVal(ret.path)
         /\ "text" \in DOMAIN ret.recs[i] <=>
              \/ RawItems(ret.path)[i].k = "str"
              \/ "text" \in DOMAIN RawItems(ret.path)[i].d

\* read_file returned a record that has no text field
C1_Witness ==
  /\ ReadFileOk
  /\ \E i \in 1..Len(ret.recs) : "text" \notin DOMAIN ret.recs[i]

\* C2 as stated: dataset[idx] raises IndexError exactly when idx is outside
\* [0, len), every negative idx included.
C2_IndexErrorOutsideRange ==
  ret.op = "getitem" =>
    (ret.status = "IndexError" <=> ~(0 <= ret.idx /\ ret.idx < Len(data)))

\* C2 amended: dataset[idx] raises IndexError exactly when idx >= len or
\* idx < -len; for -len <= idx < 0 it returns the sample of record len + idx,
\* and for 0 <= idx < len the sample of record idx.
C2_IndexErrorPythonRange ==
  ret.op = "getitem" =>
    IF ret.idx >= Len(data) \/ ret.idx < 0 - Len(data)
    THEN ret.status = "IndexError" /\ ret.recs = <<>>
    ELSE /\ ret.status = "ok"
         /\ ret.recs = <<PrepareItem(Picked, max_length)>>

C2_Witness == GetItemOk /\ ret.idx < 0

\* C3 as stated: apart from input_ids and attention_mask, the sample has
\* exactly the fields of the corpus record minus text.
C3_FieldsMinusText ==
  GetItemOk =>
    LET sample == ret.recs[1]
    IN /\ DOMAIN sample \ TokenizerFields = DOMAIN Picked \ {"text"}
       /\ \A k \in DOMAIN Picked \ {"text"} : sample[k] = Picked[k]

\* C3 amended: apart from input_ids and attention_mask, the sample has exactly
\* the fields of the corpus record that are not named input_ids or
\* attention_mask, text included, each with the record's value.
C3_FieldsWithText ==
  GetItemOk =>
    LET sample == ret.recs[1]
    IN /\ DOMAIN sample \ TokenizerFields = DOMAIN Picked \ TokenizerFields
       /\ \A k \in DOMAIN Picked \ TokenizerFields : sample[k] = Picked[k]

C3_Witness ==
  /\ GetItemOk
  /\ "text" \in DOMAIN Picked
  /\ "text" \in DOMAIN ret.recs[1]

\* C4 as stated: in every record read_file or read_directory returns, a text
\* field is a string.
C4_TextIsString ==
  ret.op \in {"read_file", "read_directory"} /\ ret.status = "ok" =>
    \A i \in 1..Len(ret.recs) :
      "text" \in DOMAIN ret.recs[i] => IsStr(ret.recs[i]["text"])

\* the raw items of the file a record names that can have become the record
SourcesOf(rec) ==
  LET raw == RawItems(rec["file"].s)
  IN {raw[j] : j \in 1..Len(raw)}

\* C4 amended: a record made from a string raw record has the stripped string
\* as its text; a record made from a mapping carries the mapping's text value
\* as it is in the source, so a non-string text stays a non-string.
C4_TextAsInSource ==
  ret.op \in {"read_file", "read_directory"} /\ ret.status = "ok" =>
    \A i \in 1..Len(ret.recs) :
      \E src \in SourcesOf(ret.recs[i]) :
        \/ /\ src.k = "str"
           /\ "text" \in DOMAIN ret.recs[i]
           /\ ret.recs[i]["text"] = StrVal(Strip(src.s))
        \/ /\ src.k = "dict"
           /\ DOMAIN ret.recs[i] = DOMAIN src.d \cup {"file"}
           /\ "text" \in DOMAIN src.d => ret.recs[i]["text"] = src.d["text"]

C4_Witness ==
  /\ ret.op \in {"read_file", "read_directory"}
  /\ ret.status = "ok"
  /\ \E i \in 1..Len(ret.recs) :
       "text" \in DOMAIN ret.recs[i] /\ ~IsStr(ret.recs[i]["text"])

\* the regular files of the tree whose suffix is registered
RegisteredFiles == {i \in 1..Len(fs) : ~fs[i].isdir /\ Selected(fs[i])}

\* a file whose content is of its type: any text, any CSV, and JSON that
\* parses into strings and objects
WellFormed(entry) ==
  Suffix(entry.path) = JsonExt =>
    /\ entry.body.data.top # "malformed"
    /\ \A j \in 1..Len(entry.body.data.vals) :
         entry.body.data.vals[j].k \in {"str", "dict"}

\* rows of a CSV file, elements of a JSON file, lines of a text file
RecordCount(entry) ==
  CASE Suffix(entry.path) = TxtExt -> Len(entry.body.lines)
    [] Suffix(entry.path) = JsonExt ->
         IF entry.body.data.top = "list" THEN Len(entry.body.data.vals) ELSE 1
    [] OTHER ->
         Cardinality({j \in 1..Len(entry.body.rows) : entry.body.rows[j] # <<>>})

RECURSIVE SumCounts(_)
SumCounts(S) ==
  IF S = {} THEN 0
  ELSE LET i == CHOOSE j \in S : TRUE
       IN RecordCount(fs[i]) + SumCounts(S \ {i})

\* C5: over a tree whose files are well-formed, read_directory returns
\* rowCount + elementCount + lineCount records and raises nothing.
C5_RecordCount ==
  /\ ret.op = "read_directory"
  /\ \A i \in RegisteredFiles : WellFormed(fs[i])
  => /\ ret.status = "ok"
     /\ Len(ret.recs) = SumCounts(RegisteredFiles)

\* C6: read_directory hands read_file only regular files with a registered
\* suffix; no directory reaches it or makes it raise.
C6_OnlyRegisteredFilesRead ==
  ret.op = "read_directory" =>
    /\ ret.status # "IsADirectoryError"
    /\ \A k \in 1..Len(ret.io) :
         \E i \in RegisteredFiles : fs[i].path = ret.io[k]

\* C7: read_file on a path whose suffix is not in the dispatch table raises
\* the unsupported-type ValueError with no file opened and no record made.
C7_UnsupportedNoIO ==
  ret.op = "read_file" /\ Suffix(ret.path) \notin DOMAIN readers =>
    /\ ret.status = "ValueError"
    /\ ret.io = <<>>
    /\ ret.recs = <<>>

\* an existing regular file with an unregistered suffix was handed to read_file
C7_Witness ==
  /\ ret.op = "read_file"
  /\ Suffix(ret.path) \notin DOMAIN readers
  /\ \E i \in 1..Len(fs) : fs[i].path = ret.path /\ ~fs[i].isdir

\* C8: prepare_data makes one sample per record; its input_ids and
\* attention_mask are the tokenizer's even when the record has fields of those
\* names, its file is the record's file, and every other field of the record
\* is carried over unchanged.
C8_MergeWithoutOverwrite ==
  ret.op = "prepare_data" =>
    /\ Len(ret.recs) = Len(ret.arg)
    /\ \A i \in 1..Len(ret.arg) :
         LET item == ret.arg[i]
             sample == ret.recs[i]
             encoded == encode_plus(TextOf(item), TRUE, max_length, "max_length", TRUE)
         IN /\ sample["input_ids"] = ListVal(encoded.input_ids)
            /\ sample["attention_mask"] = ListVal(encoded.attention_mask)
            /\ "file" \in DOMAIN item => sample["file"] = item["file"]
            /\ \A k \in DOMAIN item \ TokenizerFields :
                 k \in DOMAIN sample /\ sample[k] = item[k]

\* a record that has a field named like a tokenizer field was prepared
C8_Witness ==
  /\ ret.op = "prepare_data"
  /\ \E i \in 1..Len(ret.arg) :
       /\ DOMAIN ret.arg[i] \cap TokenizerFields # {}
       /\ "file" \in DOMAIN ret.arg[i]

\* C9: whatever the text of a record (long, short, empty or absent), the
\* sample's input_ids and attention_mask have exactly max_length entries.
C9_FixedLength ==
  ret.op = "prepare_data" =>
    \A i \in 1..Len(ret.recs) :
      /\ Len(ret.recs[i]["input_ids"].ids) = max_length
      /\ Len(ret.recs[i]["attention_mask"].ids) = max_length

\* one call prepared a text too long for max_length and a record without text
C9_Witness ==
  /\ ret.op = "prepare_data"
  /\ \E i \in 1..Len(ret.arg) : Len(Words(TextOf(ret.arg[i]))) + 2 > max_length
  /\ \E i \in 1..Len(ret.arg) : "text" \notin DOMAIN ret.arg[i]

\* C10: once the dataset is built, no call changes the corpus, len returns
\* its length, and a dataset[idx] that repeats the call before it returns a
\* sample equal to that call's.
C10_CorpusFrame ==
  [][built = "yes" =>
       /\ data' = data
       /\ ret'.op = "len" => ret'.idx = Len(data)
       /\ ret'.op = "getitem" /\ ret'.repeat /\ ret'.status = "ok"
            => ret'.recs = ret.recs]_vars

\* an index was asked for twice in a row, of a record that has a text
C10_Witness ==
  /\ GetItemOk
  /\ ret.repeat
  /\ "text" \in DOMAIN Picked

====
